---- MODULE Spec2Model ----
(***************************************************************************)
(* Model of src-tauri/src/main.rs: the two Tauri commands greet and        *)
(* get_app_data_dir, the handler registration done by main, and the host   *)
(* runtime that dispatches invocations to them.                            *)
(*                                                                         *)
(* Text is modelled as a sequence of one-character strings.  A path is a   *)
(* sequence of path units: a unit is a character, or "0xFF", a byte that   *)
(* is not valid UTF-8.                                                     *)
(***************************************************************************)
EXTENDS Integers, Sequences, FiniteSets, TLC

VARIABLES
    mainPc,       \* position of main: "start", "built", "running", "panicked"
    handlers,     \* command names registered with the tauri::Builder
    context,      \* the application context main passes to run()
    dataDir,      \* host environment: the platform's data directory, if any
    hostLookups,  \* number of path lookups the host has served
    inv           \* the invocations dispatched by the host runtime

vars == <<mainPc, handlers, context, dataDir, hostLookups, inv>>

(***************************************************************************)
(* Bounds.                                                                 *)
(***************************************************************************)
MaxInvocations == 2
MaxNameLen == 2

Invocations == 1..MaxInvocations

\* characters a caller may put in a name: the two that are meaningful to
\* format! (any other character is copied by the same branch of Format)
NameChars == {"{", "}"}

RECURSIVE SeqsUpTo(_, _)
SeqsUpTo(S, n) ==
    IF n = 0 THEN {<<>>}
    ELSE LET shorter == SeqsUpTo(S, n - 1)
         IN  shorter \cup {Append(s, c) : s \in shorter, c \in S}

Names == SeqsUpTo(NameChars, MaxNameLen)

(***************************************************************************)
(* Option<PathBuf> and Result<String, String>.                             *)
(***************************************************************************)
None == [some |-> FALSE, path |-> <<>>]
Some(p) == [some |-> TRUE, path |-> p]

Ok(s) == [kind |-> "Ok", value |-> s]
Err(s) == [kind |-> "Err", value |-> s]
NoResult == [kind |-> "Pending", value |-> <<>>]

(***************************************************************************)
(* greet: format!("Hello, {}! You've been greeted from Rust!", name).      *)
(* The format string is scanned once; each "{}" is replaced by the         *)
(* argument's Display output, which for &str is the string itself.  The    *)
(* substituted text is not scanned again.                                  *)
(***************************************************************************)
GreetTemplate ==
    <<"H", "e", "l", "l", "o", ",", " ", "{", "}", "!", " ", "Y", "o", "u",
      "'", "v", "e", " ", "b", "e", "e", "n", " ", "g", "r", "e", "e", "t",
      "e", "d", " ", "f", "r", "o", "m", " ", "R", "u", "s", "t", "!">>

RECURSIVE Format(_, _)
Format(fmt, arg) ==
    IF fmt = <<>> THEN <<>>
    ELSE IF Len(fmt) >= 2 /\ fmt[1] = "{" /\ fmt[2] = "}"
         THEN arg \o Format(SubSeq(fmt, 3, Len(fmt)), arg)
         ELSE <<fmt[1]>> \o Format(Tail(fmt), arg)

\* a greet that expands the name as if it were part of the format string
RECURSIVE FormatRescan(_, _, _)
FormatRescan(fmt, arg, fuel) ==
    IF fmt = <<>> THEN <<>>
    ELSE IF Len(fmt) >= 2 /\ fmt[1] = "{" /\ fmt[2] = "}"
         THEN IF fuel = 0
              THEN FormatRescan(SubSeq(fmt, 3, Len(fmt)), arg, 0)
              ELSE FormatRescan(arg \o SubSeq(fmt, 3, Len(fmt)), arg, fuel - 1)
         ELSE <<fmt[1]>> \o FormatRescan(Tail(fmt), arg, fuel)

greet_rescan(name) == FormatRescan(GreetTemplate, name, 1)

greet(name) == Format(GreetTemplate, name)

(***************************************************************************)
(* The host's path lookup, tauri::api::path::app_data_dir(config): the     *)
(* platform's data directory joined with the configuration's bundle        *)
(* identifier, or None when the platform has no data directory.            *)
(***************************************************************************)
InvalidByte == "0xFF"
Replacement == "U+FFFD"

\* the data directories the host may report (always non-empty)
HostDataDirs == {<<"/", "d">>, <<"/", InvalidByte>>}
HostStates == {None} \cup {Some(p) : p \in HostDataDirs}

\* tauri::Config::default(): the bundle identifier is the empty string
ConfigDefault == [identifier |-> <<>>]
\* the configurations tauri::generate_context!() may embed
AppContexts == {[identifier |-> <<"a">>], [identifier |-> <<"b">>]}

\* PathBuf::join
Join(base, p) ==
    IF p # <<>> /\ p[1] = "/" THEN p
    ELSE IF base # <<>> /\ base[Len(base)] # "/" THEN base \o <<"/">> \o p
    ELSE base \o p

app_data_dir(host, config) ==
    IF host.some THEN Some(Join(host.path, config.identifier)) ELSE None

\* Path::to_string_lossy
to_string_lossy(p) ==
    [k \in 1..Len(p) |-> IF p[k] = InvalidByte THEN Replacement ELSE p[k]]

PathErrorMessage ==
    <<"C", "o", "u", "l", "d", " ", "n", "o", "t", " ", "g", "e", "t", " ",
      "a", "p", "p", " ", "d", "a", "t", "a", " ", "d", "i", "r", "e", "c",
      "t", "o", "r", "y">>

\* variant: path.to_str() instead of to_string_lossy(), a path that is not
\* valid UTF-8 is reported as a failure
get_app_data_dir_strict(host, ctx) ==
    LET found == app_data_dir(host, ConfigDefault)
    IN  IF found.some /\ \A k \in 1..Len(found.path) : found.path[k] # InvalidByte
        THEN Ok(found.path)
        ELSE Err(PathErrorMessage)

\* variant: unwrap_or_default() instead of the match, no path gives Ok("")
get_app_data_dir_default(host, ctx) ==
    LET found == app_data_dir(host, ConfigDefault)
    IN  IF found.some THEN Ok(to_string_lossy(found.path)) ELSE Ok(<<>>)

\* variant: the lookup uses the running application's configuration
get_app_data_dir_ctx(host, ctx) ==
    LET found == app_data_dir(host, ctx)
    IN  IF found.some
        THEN Ok(to_string_lossy(found.path))
        ELSE Err(PathErrorMessage)

\* the body of get_app_data_dir, run against host environment `host` in an
\* application whose context is `ctx`
get_app_data_dir(host, ctx) ==
    LET found == app_data_dir(host, ConfigDefault)
    IN  IF found.some
        THEN Ok(to_string_lossy(found.path))
        ELSE Err(PathErrorMessage)

(***************************************************************************)
(* main.                                                                   *)
(***************************************************************************)
GeneratedHandlers == {"greet", "get_app_data_dir"}

IdleInvocation ==
    [cmd |-> "none", arg |-> <<>>, pc |-> "idle", seen |-> None,
     result |-> NoResult]

Init ==
    /\ mainPc = "start"
    /\ handlers = {}
    /\ context \in AppContexts
    /\ dataDir \in HostStates
    /\ hostLookups = 0
    /\ inv = [i \in Invocations |-> IdleInvocation]

\* variant: get_app_data_dir left out of generate_handler!
InvokeHandler_greet_only ==
    /\ mainPc = "start"
    /\ mainPc' = "built"
    /\ handlers' = {"greet"}
    /\ UNCHANGED <<context, dataDir, hostLookups, inv>>

\* tauri::Builder::default().invoke_handler(tauri::generate_handler![...])
InvokeHandler ==
    /\ mainPc = "start"
    /\ mainPc' = "built"
    /\ handlers' = GeneratedHandlers
    /\ UNCHANGED <<context, dataDir, hostLookups, inv>>

\* .run(tauri::generate_context!()) enters the event loop
Run ==
    /\ mainPc = "built"
    /\ mainPc' = "running"
    /\ UNCHANGED <<handlers, context, dataDir, hostLookups, inv>>

\* .run(...) returns an error and .expect(...) panics
RunFails ==
    /\ mainPc = "built"
    /\ mainPc' = "panicked"
    /\ UNCHANGED <<handlers, context, dataDir, hostLookups, inv>>

(***************************************************************************)
(* Invocations.  The host runtime dispatches a request to the handler      *)
(* registered under its name; invocation ids are handed out in order.      *)
(***************************************************************************)
CanDispatch(i, cmd) ==
    /\ mainPc = "running"
    /\ cmd \in handlers
    /\ inv[i].pc = "idle"
    /\ \A j \in Invocations : j < i => inv[j].pc # "idle"

\* variant: the greeting is built in a buffer that is kept between calls, so
\* the name of the previous greet is still in it
Greet_buffered(i, name) ==
    /\ CanDispatch(i, "greet")
    /\ LET kept == IF i > 1 /\ inv[i - 1].cmd = "greet"
                   THEN inv[i - 1].arg ELSE <<>>
       IN  inv' = [inv EXCEPT ![i] =
                      [cmd |-> "greet", arg |-> name, pc |-> "done",
                       seen |-> None, result |-> Ok(greet(kept \o name))]]
    /\ UNCHANGED <<mainPc, handlers, context, dataDir, hostLookups>>

\* variant: greet validates its input and rejects the empty name
Greet_validating(i, name) ==
    /\ CanDispatch(i, "greet")
    /\ inv' = [inv EXCEPT ![i] =
                  [cmd |-> "greet", arg |-> name, pc |-> "done",
                   seen |-> None,
                   result |-> IF name = <<>> THEN Err(<<"e">>)
                              ELSE Ok(greet(name))]]
    /\ UNCHANGED <<mainPc, handlers, context, dataDir, hostLookups>>

\* variant: greet declared async, the call only creates a future
Greet_async(i, name) ==
    /\ CanDispatch(i, "greet")
    /\ inv' = [inv EXCEPT ![i] =
                  [cmd |-> "greet", arg |-> name, pc |-> "pending",
                   seen |-> None, result |-> NoResult]]
    /\ UNCHANGED <<mainPc, handlers, context, dataDir, hostLookups>>

\* greet is a synchronous command: called and answered in one step
Greet(i, name) ==
    /\ CanDispatch(i, "greet")
    /\ inv' = [inv EXCEPT ![i] =
                  [cmd |-> "greet", arg |-> name, pc |-> "done",
                   seen |-> None, result |-> Ok(greet(name))]]
    /\ UNCHANGED <<mainPc, handlers, context, dataDir, hostLookups>>

\* get_app_data_dir is an async command: the call creates a future that the
\* async runtime runs later
InvokeGetAppDataDir(i) ==
    /\ CanDispatch(i, "get_app_data_dir")
    /\ inv' = [inv EXCEPT ![i] =
                  [cmd |-> "get_app_data_dir", arg |-> <<>>, pc |-> "pending",
                   seen |-> None, result |-> NoResult]]
    /\ UNCHANGED <<mainPc, handlers, context, dataDir, hostLookups>>

\* variant: the first outcome is kept in a process-wide cell and reused
PollGetAppDataDir_cached(i) ==
    /\ mainPc = "running"
    /\ inv[i].pc = "pending"
    /\ LET earlier == {j \in Invocations :
                          inv[j].cmd = "get_app_data_dir" /\ inv[j].pc = "done"}
       IN  IF earlier = {}
           THEN /\ hostLookups' = hostLookups + 1
                /\ inv' = [inv EXCEPT ![i] =
                      [@ EXCEPT !.pc = "done", !.seen = dataDir,
                                !.result = get_app_data_dir(dataDir, context)]]
           ELSE /\ hostLookups' = hostLookups
                /\ \E j \in earlier :
                      inv' = [inv EXCEPT ![i] =
                          [@ EXCEPT !.pc = "done", !.seen = dataDir,
                                    !.result = inv[j].result]]
    /\ UNCHANGED <<mainPc, handlers, context, dataDir>>

\* variant: a failed lookup is tried a second time before it is reported
PollGetAppDataDir_retry(i) ==
    /\ mainPc = "running"
    /\ inv[i].pc = "pending"
    /\ hostLookups' = hostLookups + (IF dataDir.some THEN 1 ELSE 2)
    /\ inv' = [inv EXCEPT ![i] =
                  [@ EXCEPT !.pc = "done", !.seen = dataDir,
                            !.result = get_app_data_dir(dataDir, context)]]
    /\ UNCHANGED <<mainPc, handlers, context, dataDir>>

\* the future is polled: the body has no await point and runs to the end
PollGetAppDataDir(i) ==
    /\ mainPc = "running"
    /\ inv[i].pc = "pending"
    /\ hostLookups' = hostLookups + 1
    /\ inv' = [inv EXCEPT ![i] =
                  [@ EXCEPT !.pc = "done", !.seen = dataDir,
                            !.result = get_app_data_dir(dataDir, context)]]
    /\ UNCHANGED <<mainPc, handlers, context, dataDir>>

\* the host environment changes under the running process
HostEnvChange ==
    /\ mainPc = "running"
    /\ dataDir' \in HostStates \ {dataDir}
    /\ UNCHANGED <<mainPc, handlers, context, hostLookups, inv>>

Next ==
    \/ InvokeHandler
    \/ Run
    \/ RunFails
    \/ \E i \in Invocations, name \in Names : Greet(i, name)
    \/ \E i \in Invocations : InvokeGetAppDataDir(i)
    \/ \E i \in Invocations : PollGetAppDataDir(i)
    \/ HostEnvChange

Spec == Init /\ [][Next]_vars

(***************************************************************************)
(* Properties.                                                             *)
(***************************************************************************)
Greeted(i) == inv[i].cmd = "greet" /\ inv[i].pc = "done"
Resolved(i) == inv[i].cmd = "get_app_data_dir" /\ inv[i].pc = "done"
Suspended(i) == inv[i].cmd = "get_app_data_dir" /\ inv[i].pc = "pending"

GreetPrefix == <<"H", "e", "l", "l", "o", ",", " ">>
GreetSuffix ==
    <<"!", " ", "Y", "o", "u", "'", "v", "e", " ", "b", "e", "e", "n", " ",
      "g", "r", "e", "e", "t", "e", "d", " ", "f", "r", "o", "m", " ", "R",
      "u", "s", "t", "!">>

\* C1: for every name s, the empty one included, greet(s) is exactly
\* "Hello, " followed by s followed by "! You've been greeted from Rust!":
\* s stands verbatim at position 8 and the rest of the result is fixed.
C1_GreetIsTemplate ==
    \A i \in Invocations :
        Greeted(i) =>
            /\ inv[i].result = Ok(GreetPrefix \o inv[i].arg \o GreetSuffix)
            /\ SubSeq(inv[i].result.value, Len(GreetPrefix) + 1,
                      Len(GreetPrefix) + Len(inv[i].arg)) = inv[i].arg
            /\ Len(inv[i].result.value) =
                   Len(GreetPrefix) + Len(inv[i].arg) + Len(GreetSuffix)

C1_Witness ==
    /\ \E i \in Invocations : Greeted(i) /\ inv[i].arg = <<>>
    /\ \E i \in Invocations : Greeted(i) /\ inv[i].arg = <<"{", "}">>

\* C2: a finished get_app_data_dir has one of two outcomes, decided by the
\* host's answer alone: a resolved path gives Ok carrying the path as text
\* (unit for unit, a unit that is not valid UTF-8 shown as U+FFFD), no path
\* gives Err("Could not get app data directory"); an unfinished one has no
\* result at all.
C2_TwoOutcomes ==
    \A i \in Invocations :
        /\ Resolved(i) =>
              LET found == app_data_dir(inv[i].seen, ConfigDefault)
              IN  /\ inv[i].result.kind \in {"Ok", "Err"}
                  /\ found.some =>
                        /\ inv[i].result.kind = "Ok"
                        /\ Len(inv[i].result.value) = Len(found.path)
                        /\ \A k \in 1..Len(found.path) :
                              inv[i].result.value[k] =
                                  IF found.path[k] = InvalidByte
                                  THEN Replacement ELSE found.path[k]
                  /\ ~found.some => inv[i].result = Err(PathErrorMessage)
        /\ Suspended(i) => inv[i].result = NoResult

C2_Witness ==
    /\ \E i \in Invocations :
          Resolved(i) /\ inv[i].seen = Some(<<"/", InvalidByte>>)
                      /\ inv[i].result.kind = "Ok"
    /\ \E i \in Invocations :
          Resolved(i) /\ inv[i].seen = None /\ inv[i].result.kind = "Err"

\* C3: get_app_data_dir never succeeds with the empty string: every Ok
\* carries a non-empty text, and a host without a data directory gives Err.
C3_NoEmptySuccess ==
    \A i \in Invocations :
        Resolved(i) =>
            /\ inv[i].result.kind = "Ok" => inv[i].result.value # <<>>
            /\ ~inv[i].seen.some => inv[i].result.kind = "Err"

C3_Witness ==
    \E i, j \in Invocations :
        /\ Resolved(i) /\ ~inv[i].seen.some
        /\ Resolved(j) /\ inv[j].seen.some /\ Len(inv[j].result.value) > 0

\* C4: two greets of the same name return the same text, and two
\* get_app_data_dir that met the same host environment return the same
\* outcome, whatever was invoked before them.
C4_Idempotent ==
    \A i, j \in Invocations :
        /\ (Greeted(i) /\ Greeted(j) /\ inv[i].arg = inv[j].arg)
              => inv[i].result = inv[j].result
        /\ (Resolved(i) /\ Resolved(j) /\ inv[i].seen = inv[j].seen)
              => inv[i].result = inv[j].result

C4_Witness ==
    \E i, j \in Invocations :
        /\ i < j /\ Greeted(i) /\ Greeted(j)
        /\ inv[i].arg = <<"{">> /\ inv[j].arg = <<"{">>

\* C5: greet never answers with an error, so every error a caller sees
\* comes from get_app_data_dir and carries the path-resolution message.
C5_OneErrorKind ==
    \A i \in Invocations :
        /\ Greeted(i) => inv[i].result.kind = "Ok"
        /\ inv[i].result.kind = "Err" =>
              /\ inv[i].cmd = "get_app_data_dir"
              /\ inv[i].result.value = PathErrorMessage

C5_Witness ==
    /\ \E i \in Invocations : Greeted(i) /\ inv[i].arg = <<>>
    /\ \E i \in Invocations : Resolved(i) /\ inv[i].result.kind = "Err"

\* C6: invocations do not interfere: a step of one invocation changes no
\* other invocation's record and not the host environment, and the result
\* it produces is the one the invocation returns when run alone on its own
\* input and the host environment of that step.
C6_NoInterference ==
    [][\A i \in Invocations :
          inv'[i] # inv[i] =>
              /\ \A j \in Invocations \ {i} : inv'[j] = inv[j]
              /\ dataDir' = dataDir
              /\ inv'[i].pc = "done" =>
                    /\ inv[i].pc = "pending" =>
                          inv'[i].cmd = inv[i].cmd /\ inv'[i].arg = inv[i].arg
                    /\ inv'[i].result =
                          IF inv'[i].cmd = "greet" THEN Ok(greet(inv'[i].arg))
                          ELSE get_app_data_dir(dataDir, context)]_vars

\* a get_app_data_dir is still suspended while one invoked after it has
\* finished and the host environment has changed since
C6_Witness ==
    \E i, j \in Invocations :
        /\ i < j /\ Suspended(i) /\ Resolved(j)
        /\ inv[j].seen # dataDir

\* C7: each get_app_data_dir makes exactly one host lookup, in the step in
\* which it finishes; a failed lookup is reported at once as the error, and
\* the outcome is that of the host environment at that step, not of an
\* earlier invocation's lookup.  No other step makes a lookup.
C7_OneFreshLookup ==
    [][/\ \A i \in Invocations :
             (Suspended(i) /\ inv'[i].pc = "done") =>
                 /\ hostLookups' = hostLookups + 1
                 /\ inv'[i].result.kind = (IF dataDir.some THEN "Ok" ELSE "Err")
                 /\ dataDir.some =>
                       inv'[i].result.value =
                           to_string_lossy(
                               app_data_dir(dataDir, ConfigDefault).path)
       /\ (\A i \in Invocations : ~(Suspended(i) /\ inv'[i].pc = "done"))
             => hostLookups' = hostLookups]_vars

\* the first lookup failed and a later invocation's lookup succeeded
C7_Witness ==
    /\ hostLookups = 2
    /\ \E i, j \in Invocations :
          /\ Resolved(i) /\ inv[i].result.kind = "Err"
          /\ Resolved(j) /\ inv[j].result.kind = "Ok"

\* C8: the handler set is empty until main registers it, is exactly
\* {greet, get_app_data_dir} from then on, event loop included, and only
\* those two commands are ever dispatched.
C8_HandlerSet ==
    /\ mainPc = "start" => handlers = {}
    /\ mainPc # "start" => handlers = {"greet", "get_app_data_dir"}
    /\ \A i \in Invocations :
          inv[i].pc # "idle" =>
              /\ mainPc = "running"
              /\ inv[i].cmd \in {"greet", "get_app_data_dir"}

C8_Witness ==
    /\ mainPc = "running"
    /\ \E i, j \in Invocations : Greeted(i) /\ Resolved(j)

\* C9: greet never suspends: an invocation that is pending is a
\* get_app_data_dir, a greet has its result as soon as it exists; and a
\* get_app_data_dir whose lookup was served is finished with Ok or Err.
C9_GreetNeverPending ==
    /\ \A i \in Invocations :
          /\ inv[i].pc = "pending" => inv[i].cmd = "get_app_data_dir"
          /\ inv[i].cmd = "greet" =>
                inv[i].pc = "done" /\ inv[i].result.kind = "Ok"
          /\ Resolved(i) => inv[i].result.kind \in {"Ok", "Err"}
    /\ hostLookups = Cardinality({i \in Invocations : Resolved(i)})

C9_Witness ==
    \E i, j \in Invocations :
        i < j /\ Suspended(i) /\ Greeted(j)

\* C10: the outcome of get_app_data_dir is the same under every application
\* context: it is the outcome the same host environment gives in an
\* application with any other identifier.
C10_ContextIndependent ==
    \A i \in Invocations :
        Resolved(i) =>
            \A c \in AppContexts :
                inv[i].result = get_app_data_dir(inv[i].seen, c)

C10_Witness ==
    \E i \in Invocations :
        /\ Resolved(i) /\ inv[i].seen.some
        /\ context.identifier # ConfigDefault.identifier
====
